---- MODULE Spec2Model ----
(***************************************************************************)
(* Model of hwr/models/model.py: the HWRModel base class.  One object is   *)
(* constructed and then used through its public methods; the Keras model,  *)
(* the file system and the decoders are represented by the calls made on   *)
(* them and by the values those calls are given.                           *)
(*                                                                         *)
(* Strings that the code concatenates (paths, file names, timestamps) are  *)
(* sequences of string tokens, so that "+" is \o and order is observable.  *)
(***************************************************************************)
EXTENDS Integers, Sequences, FiniteSets, TLC

(* ------------------------------ bounds --------------------------------- *)
MaxSamples == 2
MaxTop == 2
MaxHist == 5
MaxNow == 2
MaxMetrics == 2
MaxFiles == 2

(* ------------------------- program constants --------------------------- *)
BeamWidth == 20
DefaultEpochs == 100
DefaultEarlystop == 5

None == "None"

\* hwr.constants.DECODER
DECODER ==
  [BEST_PATH |-> "best_path",
   VANILLA_BEAM_SEARCH |-> "vanilla_beam_search",
   TRIE_BEAM_SEARCH |-> "trie_beam_search"]

Decoders ==
  {DECODER.BEST_PATH, DECODER.VANILLA_BEAM_SEARCH, DECODER.TRIE_BEAM_SEARCH}

\* hwr.constants.ON.PATH.CKPT_DIR
CKPT_DIR == "ckpt/"

\* names of the concrete subclasses of HWRModel
ClassNames == {"ModelA"}

\* hwr.constants.PRETRAINED
PRETRAINED == [c \in ClassNames |-> <<"pretrained/", c, ".h5">>]

(* ------------------------------ inputs --------------------------------- *)
Samples == {"s1", "s2"}

RECURSIVE SeqsUpTo(_, _)
SeqsUpTo(S, n) ==
  IF n = 0 THEN {<<>>}
  ELSE LET shorter == SeqsUpTo(S, n - 1)
       IN shorter \cup {Append(s, e) : s \in {t \in shorter : Len(t) = n - 1}, e \in S}

\* an input x of predict: a keras Sequence or a plain array of samples
Inputs ==
  {[isSequence |-> b, samples |-> s] : b \in BOOLEAN, s \in SeqsUpTo(Samples, MaxSamples)}

\* evaluation sequences: keras Sequences that also offer get_xy()
EvalSeqs == {x \in Inputs : x.isSequence}

FileNames == {<<>>, <<"w.h5">>}

\* metric functions: distinct functions (id) may carry the same __name__
character_error_rate == [name |-> "character_error_rate", id |-> "cer"]

MetricFns ==
  {character_error_rate,
   [name |-> "<lambda>", id |-> "f1"],
   [name |-> "<lambda>", id |-> "f2"]}

\* the metrics argument of evaluate: None, or a list of metric functions
NoMetrics == [isNone |-> TRUE, fns |-> <<>>]

\* lists of up to MaxMetrics different metric functions
MetricLists ==
  {s \in SeqsUpTo(MetricFns, MaxMetrics) :
     \A i, j \in 1..Len(s) : s[i] = s[j] => i = j}

MetricArgs ==
  {NoMetrics} \cup {[isNone |-> FALSE, fns |-> s] : s \in MetricLists}

\* the inputs used while following the object's life
LifeInputs == {[isSequence |-> TRUE, samples |-> <<"s1">>]}

\* train(train_seq, test_seq, epochs, earlystop): the defaults and one other choice
TrainArgs ==
  {[train_seq |-> "seqA", test_seq |-> "seqB",
    epochs |-> DefaultEpochs, earlystop |-> DefaultEarlystop],
   [train_seq |-> "seqB", test_seq |-> "seqA", epochs |-> 1, earlystop |-> 0]}

(* ------------------------------ get_time -------------------------------- *)
\* datetime.now() is an instant in half-second ticks; strftime keeps seconds
get_time(now) == <<ToString(now \div 2)>>

(* ---------------------------- predict_softmax --------------------------- *)
Softmax(s) == <<"softmax", s>>

predict_softmax(x) ==
  [fn |-> IF x.isSequence THEN "predict_generator" ELSE "predict",
   sm |-> [i \in 1..Len(x.samples) |-> Softmax(x.samples[i])]]

(* ------------------------------ decoders -------------------------------- *)
Text(dec, sm, k) == [decoder |-> dec, of |-> sm, rank |-> k]

\* one text per sample
best_path(softmaxs) ==
  [i \in 1..Len(softmaxs) |-> Text("best_path", softmaxs[i], 1)]

\* top_paths candidates per sample, best first
beam_search(softmaxs, width, top_paths) ==
  [i \in 1..Len(softmaxs) |->
     [k \in 1..top_paths |-> Text("beam_search", softmaxs[i], k)]]

trie_beam_search(softmaxs, width, top_paths, use_lm) ==
  [i \in 1..Len(softmaxs) |->
     [k \in 1..top_paths |-> Text("trie_beam_search", softmaxs[i], k)]]

DecoderCall(fn, input, width, top_paths, use_lm) ==
  [fn |-> fn, input |-> input, width |-> width, top_paths |-> top_paths,
   use_lm |-> use_lm]

(* ------------------------------- predict -------------------------------- *)
\* variant: the decoder argument is ignored
EffectiveDecoder_ignoresArgument(selfDecoder, decoder) == selfDecoder

EffectiveDecoder(selfDecoder, decoder) ==
  IF decoder = None THEN selfDecoder ELSE decoder

\* the value of pred after the if/elif chain; isNone when no branch is taken
Decode(d, softmaxs, top) ==
  IF d = DECODER.BEST_PATH
    THEN [isNone |-> FALSE,
          val |-> [i \in 1..Len(softmaxs) |-> [k \in 1..top |-> best_path(softmaxs)[i]]]]
  ELSE IF d = DECODER.VANILLA_BEAM_SEARCH
    THEN [isNone |-> FALSE, val |-> beam_search(softmaxs, BeamWidth, top)]
  ELSE IF d = DECODER.TRIE_BEAM_SEARCH
    THEN [isNone |-> FALSE, val |-> trie_beam_search(softmaxs, BeamWidth, top, TRUE)]
  ELSE [isNone |-> TRUE, val |-> <<>>]

\* the decoder calls made by the if/elif chain
DecodeCalls(d, softmaxs, top) ==
  IF d = DECODER.BEST_PATH
    THEN <<DecoderCall("best_path", softmaxs, 0, 0, FALSE)>>
  ELSE IF d = DECODER.VANILLA_BEAM_SEARCH
    THEN <<DecoderCall("beam_search", softmaxs, BeamWidth, top, FALSE)>>
  ELSE IF d = DECODER.TRIE_BEAM_SEARCH
    THEN <<DecoderCall("trie_beam_search", softmaxs, BeamWidth, top, TRUE)>>
  ELSE <<>>

\* variant: the flat list is built in reverse sample order
Flatten_reversed(pred, top) ==
  IF top = 1 THEN [i \in 1..Len(pred) |-> pred[Len(pred) + 1 - i][1]] ELSE pred

Flatten(pred, top) ==
  IF top = 1 THEN [i \in 1..Len(pred) |-> pred[i][1]] ELSE pred

predict(selfDecoder, x, decoder, top) ==
  LET d == EffectiveDecoder(selfDecoder, decoder)
      softmaxs == predict_softmax(x).sm
      pred == Decode(d, softmaxs, top)
      raises == pred.isNone /\ (top = 1)
  IN [ret |-> IF pred.isNone THEN None ELSE Flatten(pred.val, top),
      calls |-> <<predict_softmax(x).fn>>,
      decoderCalls |-> DecodeCalls(d, softmaxs, top),
      raised |-> raises]

(* ------------------------------- evaluate ------------------------------- *)
get_xy(eval_seq) ==
  <<eval_seq.samples,
    [i \in 1..Len(eval_seq.samples) |-> <<"label", eval_seq.samples[i]>>]>>

\* m(y_true, y_pred)
Apply(m, y_true, y_pred) == [metric |-> m.id, y_true |-> y_true, y_pred |-> y_pred]

\* the loop "for m in metrics: ret[m.__name__] = m(y_true, y_pred)"
\* variant: an entry already present is not overwritten
RECURSIVE MetricLoop_keepsFirst(_, _, _, _)
MetricLoop_keepsFirst(metrics, y_true, y_pred, ret) ==
  IF metrics = <<>> THEN ret
  ELSE MetricLoop_keepsFirst(Tail(metrics), y_true, y_pred,
         ret @@ (Head(metrics).name :> Apply(Head(metrics), y_true, y_pred)))

RECURSIVE MetricLoop(_, _, _, _)
MetricLoop(metrics, y_true, y_pred, ret) ==
  IF metrics = <<>> THEN ret
  ELSE MetricLoop(Tail(metrics), y_true, y_pred,
                  (Head(metrics).name :> Apply(Head(metrics), y_true, y_pred)) @@ ret)

evaluate(selfDecoder, eval_seq, metrics, decoder) ==
  LET ms == IF metrics.isNone THEN <<character_error_rate>> ELSE metrics.fns
      d == EffectiveDecoder(selfDecoder, decoder)
      y_true == get_xy(eval_seq)[2]
      p == predict(selfDecoder, eval_seq, d, 1)
  IN [ret |-> MetricLoop(ms, y_true, p.ret, <<>>),
      calls |-> <<"get_xy">> \o p.calls,
      decoderCalls |-> p.decoderCalls,
      predictArgs |-> [x |-> eval_seq, decoder |-> d, top |-> 1]]

(* --------------------------- weights file I/O --------------------------- *)
SavePath(ckptdir, file_name, full_path, now) ==
  LET fn1 == IF file_name = <<>> THEN get_time(now) \o <<".h5">> ELSE file_name
  IN IF ~full_path THEN fn1 \o ckptdir ELSE fn1

LoadPath(ckptdir, file_name, full_path) ==
  IF ~full_path THEN file_name \o ckptdir ELSE file_name

\* variant: no recompilation after the weights are loaded
load_weights_withoutCompile(ckptdir, file_name, full_path, fs) ==
  LET path == IF ~full_path THEN file_name \o ckptdir ELSE file_name
      ok == path \in fs
  IN [path |-> path,
      raised |-> ~ok,
      calls |-> <<"model.load_weights">>,
      hist |-> IF ok THEN <<"load">> ELSE <<>>]

\* load_weights: the framework raises when the file is absent
load_weights(ckptdir, file_name, full_path, fs) ==
  LET path == LoadPath(ckptdir, file_name, full_path)
      ok == path \in fs
  IN [path |-> path,
      raised |-> ~ok,
      calls |-> IF ok THEN <<"model.load_weights", "model.compile">>
                ELSE <<"model.load_weights">>,
      hist |-> IF ok THEN <<"load", "compile">> ELSE <<>>]

(* -------------------------------- state --------------------------------- *)
VARIABLES
  pc,            \* "new": not constructed; "ready": object exists; "failed": __init__ raised
  self,          \* the object's attributes
  hist,          \* weight loads and compiles of self.model, oldest first
  files,         \* weight files present in the file system
  dirs,          \* directories present in the file system
  op,            \* the method called last
  arg,           \* its arguments
  calls,         \* the calls it made, in order
  decoderCalls,  \* the decoder calls it made, with their arguments
  ioPath,        \* the path it handed to model.save_weights / model.load_weights
  fit,           \* its fit_generator calls
  ret,           \* its return value
  raised         \* whether it raised

vars ==
  <<pc, self, hist, files, dirs, op, arg, calls, decoderCalls, ioPath, fit, ret, raised>>

NoSelf == [class_name |-> None, ckptdir |-> <<>>, decoder |-> None, pretrained |-> <<>>]

NoArg ==
  [x |-> None, decoder |-> None, top |-> 0, file_name |-> <<>>, full_path |-> FALSE,
   metrics |-> NoMetrics, epochs |-> 0, earlystop |-> 0, now |-> 0, preload |-> FALSE,
   train_seq |-> None, test_seq |-> None]

Init ==
  /\ pc = "new"
  /\ self = NoSelf
  /\ hist = <<>>
  /\ files \in {{}, {PRETRAINED[c] : c \in ClassNames}}
  /\ dirs = {}
  /\ op = None
  /\ arg = NoArg
  /\ calls = <<>>
  /\ decoderCalls = <<>>
  /\ ioPath = <<>>
  /\ fit = <<>>
  /\ ret = None
  /\ raised = FALSE

(* ------------------------------- __init__ ------------------------------- *)
\* variant: the pretrained weights are loaded before the first compile
InitCalls_loadsFirst(preload, lw) ==
  <<"get_model_conf">> \o (IF preload THEN lw.calls ELSE <<>>) \o <<"model.compile">>

\* the calls of __init__, lw being the outcome of its load_weights call
InitCalls(preload, lw) ==
  <<"get_model_conf", "model.compile">> \o (IF preload THEN lw.calls ELSE <<>>)

Construct(cls, preload, decoder) ==
  /\ pc = "new"
  /\ LET ckptdir == <<CKPT_DIR, cls, "/">>
         lw == load_weights(ckptdir, PRETRAINED[cls], TRUE, files)
     IN /\ self' = [class_name |-> cls, ckptdir |-> ckptdir, decoder |-> decoder,
                    pretrained |-> IF preload THEN PRETRAINED[cls] ELSE <<>>]
        /\ calls' = InitCalls(preload, lw)
        /\ hist' = <<"compile">> \o (IF preload THEN lw.hist ELSE <<>>)
        /\ ioPath' = IF preload THEN lw.path ELSE <<>>
        /\ raised' = (preload /\ lw.raised)
        /\ pc' = IF preload /\ lw.raised THEN "failed" ELSE "ready"
  /\ op' = "__init__"
  /\ arg' = [NoArg EXCEPT !.preload = preload, !.decoder = decoder]
  /\ ret' = None
  /\ decoderCalls' = <<>>
  /\ fit' = <<>>
  /\ UNCHANGED <<files, dirs>>

(* ------------------------------- predict -------------------------------- *)
Predict(x, decoder, top) ==
  /\ pc = "ready"
  /\ LET p == predict(self.decoder, x, decoder, top)
     IN /\ ret' = p.ret
        /\ calls' = p.calls
        /\ decoderCalls' = p.decoderCalls
        /\ raised' = p.raised
  /\ op' = "predict"
  /\ arg' = [NoArg EXCEPT !.x = x, !.decoder = decoder, !.top = top]
  /\ ioPath' = <<>>
  /\ fit' = <<>>
  /\ UNCHANGED <<pc, self, hist, files, dirs>>

(* ------------------------------- evaluate ------------------------------- *)
Evaluate(eval_seq, metrics, decoder) ==
  /\ pc = "ready"
  /\ LET e == evaluate(self.decoder, eval_seq, metrics, decoder)
     IN /\ ret' = e.ret
        /\ calls' = e.calls
        /\ decoderCalls' = e.decoderCalls
  /\ raised' = FALSE
  /\ op' = "evaluate"
  /\ arg' = [NoArg EXCEPT !.x = eval_seq, !.decoder = decoder, !.metrics = metrics]
  /\ ioPath' = <<>>
  /\ fit' = <<>>
  /\ UNCHANGED <<pc, self, hist, files, dirs>>

(* ----------------------------- save_weights ----------------------------- *)
SaveWeights(file_name, full_path, now) ==
  /\ pc = "ready"
  /\ Cardinality(files) < MaxFiles
  /\ LET path == SavePath(self.ckptdir, file_name, full_path, now)
     IN /\ ioPath' = path
        /\ files' = files \cup {path}
  /\ calls' = <<"model.save_weights">>
  /\ op' = "save_weights"
  /\ arg' = [NoArg EXCEPT !.file_name = file_name, !.full_path = full_path, !.now = now]
  /\ ret' = None
  /\ raised' = FALSE
  /\ decoderCalls' = <<>>
  /\ fit' = <<>>
  /\ UNCHANGED <<pc, self, hist, dirs>>

(* ----------------------------- load_weights ----------------------------- *)
LoadWeights(file_name, full_path) ==
  /\ pc = "ready"
  /\ Len(hist) + 2 <= MaxHist
  /\ LET lw == load_weights(self.ckptdir, file_name, full_path, files)
     IN /\ ioPath' = lw.path
        /\ calls' = lw.calls
        /\ hist' = hist \o lw.hist
        /\ raised' = lw.raised
  /\ op' = "load_weights"
  /\ arg' = [NoArg EXCEPT !.file_name = file_name, !.full_path = full_path]
  /\ ret' = None
  /\ decoderCalls' = <<>>
  /\ fit' = <<>>
  /\ UNCHANGED <<pc, self, files, dirs>>

(* --------------------------------- train -------------------------------- *)
ModelCheckpoint(path) ==
  [kind |-> "ModelCheckpoint", path |-> path, save_weights_only |-> TRUE,
   save_best_only |-> TRUE, patience |-> 0]

EarlyStopping(patience) ==
  [kind |-> "EarlyStopping", path |-> <<>>, save_weights_only |-> FALSE,
   save_best_only |-> FALSE, patience |-> patience]

\* variant: every run shares the model's checkpoint directory
TrainDir_noTimestamp(ckptdir, now) == ckptdir

TrainDir(ckptdir, now) == ckptdir \o get_time(now) \o <<"/">>

Train(train_seq, test_seq, epochs, earlystop, now, wrote) ==
  /\ pc = "ready"
  /\ wrote => Cardinality(files) < MaxFiles
  /\ LET ckptdir == TrainDir(self.ckptdir, now)
         exists == ckptdir \in dirs
         dirs1 == IF exists THEN dirs ELSE dirs \cup {ckptdir}
         cp_callback == ModelCheckpoint(ckptdir \o <<"weights.h5">>)
         es_callback == EarlyStopping(earlystop)
     IN /\ dirs' = dirs1
        /\ calls' = <<"os.path.exists">>
                      \o (IF exists THEN <<>> ELSE <<"os.makedirs">>)
                      \o <<"ModelCheckpoint", "EarlyStopping", "model.fit_generator">>
        /\ fit' = <<[generator |-> train_seq, validation_data |-> test_seq,
                     shuffle |-> TRUE, epochs |-> epochs,
                     callbacks |-> <<cp_callback, es_callback>>,
                     dirs |-> dirs1]>>
        \* the checkpoint callback writes its file when an epoch improves
        /\ files' = IF wrote THEN files \cup {cp_callback.path} ELSE files
  /\ op' = "train"
  /\ arg' = [NoArg EXCEPT !.train_seq = train_seq, !.test_seq = test_seq,
                          !.epochs = epochs, !.earlystop = earlystop, !.now = now]
  /\ ret' = None
  /\ raised' = FALSE
  /\ decoderCalls' = <<>>
  /\ ioPath' = <<>>
  /\ UNCHANGED <<pc, self, hist>>

(* --------------------------------- Next --------------------------------- *)
\* the object's life: construction, weight files, training, and use
Next ==
  \/ \E cls \in ClassNames, preload \in BOOLEAN :
       Construct(cls, preload, DECODER.TRIE_BEAM_SEARCH)
  \/ \E x \in LifeInputs : Predict(x, None, 1)
  \/ \E e \in LifeInputs : Evaluate(e, NoMetrics, None)
  \/ \E file_name \in FileNames, full_path \in BOOLEAN, now \in 0..MaxNow :
       SaveWeights(file_name, full_path, now)
  \/ \E file_name \in FileNames \cup files, full_path \in BOOLEAN :
       LoadWeights(file_name, full_path)
  \/ \E a \in TrainArgs, now \in 0..MaxNow, wrote \in BOOLEAN :
       Train(a.train_seq, a.test_seq, a.epochs, a.earlystop, now, wrote)

Spec == Init /\ [][Next]_vars

\* prediction over all inputs, decoders and numbers of candidates
NextDecode ==
  \/ \E cls \in ClassNames, decoder \in Decoders :
       Construct(cls, FALSE, decoder)
  \/ \E x \in Inputs, decoder \in Decoders \cup {None}, top \in 1..MaxTop :
       Predict(x, decoder, top)

SpecDecode == Init /\ [][NextDecode]_vars

\* evaluation over all evaluation sequences and metric lists
NextEval ==
  \/ \E cls \in ClassNames,
        decoder \in {DECODER.VANILLA_BEAM_SEARCH, DECODER.TRIE_BEAM_SEARCH} :
       Construct(cls, FALSE, decoder)
  \/ \E e \in EvalSeqs, metrics \in MetricArgs, decoder \in {None, DECODER.BEST_PATH} :
       Evaluate(e, metrics, decoder)

SpecEval == Init /\ [][NextEval]_vars

(* ------------------------------ properties ------------------------------ *)
Count(seq, e) == Cardinality({i \in 1..Len(seq) : seq[i] = e})

IsPrefix(p, q) == Len(p) <= Len(q) /\ SubSeq(q, 1, Len(p)) = p

\* the function a DECODER value stands for
DecoderFn(d) ==
  IF d = DECODER.BEST_PATH THEN "best_path"
  ELSE IF d = DECODER.VANILLA_BEAM_SEARCH THEN "beam_search"
  ELSE "trie_beam_search"

\* the softmax output for the samples of x, in input order
SoftmaxOf(x) == [i \in 1..Len(x.samples) |-> <<"softmax", x.samples[i]>>]

\* the effective decoder of the last call
Effective == IF arg.decoder = None THEN self.decoder ELSE arg.decoder

\* C1: predict runs exactly one decoder, the one named by the effective
\* decoder value (the argument, or self.decoder when the argument is None),
\* on the output of predict_softmax(x): best_path for BEST_PATH, beam_search
\* with width 20 and top_paths=top for VANILLA_BEAM_SEARCH, trie_beam_search
\* with width 20, top_paths=top and use_lm=True for TRIE_BEAM_SEARCH.
C1_DecoderSelected ==
  op = "predict" =>
    /\ Len(calls) = 1
    /\ calls[1] \in {"predict", "predict_generator"}
    /\ Len(decoderCalls) = 1
    /\ decoderCalls[1].input = SoftmaxOf(arg.x)
    /\ Effective = DECODER.BEST_PATH => decoderCalls[1].fn = "best_path"
    /\ Effective = DECODER.VANILLA_BEAM_SEARCH =>
         /\ decoderCalls[1].fn = "beam_search"
         /\ decoderCalls[1].width = 20
         /\ decoderCalls[1].top_paths = arg.top
    /\ Effective = DECODER.TRIE_BEAM_SEARCH =>
         /\ decoderCalls[1].fn = "trie_beam_search"
         /\ decoderCalls[1].width = 20
         /\ decoderCalls[1].top_paths = arg.top
         /\ decoderCalls[1].use_lm = TRUE

\* an explicit decoder argument that differs from self.decoder was honoured
C1_Witness ==
  /\ op = "predict"
  /\ arg.decoder = DECODER.VANILLA_BEAM_SEARCH
  /\ self.decoder = DECODER.BEST_PATH
  /\ arg.top = 2
  /\ Len(arg.x.samples) = 2
  /\ decoderCalls[1].fn = "beam_search"

\* C2: with top=1 predict returns a flat list holding, for each input sample
\* in input order, the first candidate the decoder produced for it; with
\* top=n>1 it returns one list of n candidates per input sample, in input
\* order, unflattened.
C2_TopTexts ==
  op = "predict" =>
    /\ Len(ret) = Len(arg.x.samples)
    /\ \A i \in 1..Len(arg.x.samples) :
         IF arg.top = 1
           THEN ret[i] = [decoder |-> DecoderFn(Effective),
                          of |-> <<"softmax", arg.x.samples[i]>>, rank |-> 1]
           ELSE /\ Len(ret[i]) = arg.top
                /\ \A k \in 1..arg.top :
                     /\ ret[i][k].decoder = DecoderFn(Effective)
                     /\ ret[i][k].of = <<"softmax", arg.x.samples[i]>>
                     /\ ret[i][k].rank = IF Effective = DECODER.BEST_PATH THEN 1 ELSE k

\* top=1 on two different samples, decoded by the trie beam search
C2_Witness ==
  /\ op = "predict"
  /\ arg.top = 1
  /\ arg.x.samples = <<"s2", "s1">>
  /\ Effective = DECODER.TRIE_BEAM_SEARCH
  /\ ret[1].of = <<"softmax", "s2">>

\* the metric list evaluate works with
MetricsUsed == IF arg.metrics.isNone THEN <<character_error_rate>> ELSE arg.metrics.fns

\* the value of metric m on the labels of eval_seq and on the flat top-1
\* prediction of the effective decoder
MetricValue(m) ==
  [metric |-> m.id,
   y_true |-> [i \in 1..Len(arg.x.samples) |-> <<"label", arg.x.samples[i]>>],
   y_pred |-> [i \in 1..Len(arg.x.samples) |->
                 [decoder |-> DecoderFn(Effective),
                  of |-> <<"softmax", arg.x.samples[i]>>, rank |-> 1]]]

\* one prediction was made, with top=1, on eval_seq
PredictedOnce ==
  /\ Count(calls, "predict_generator") + Count(calls, "predict") = 1
  /\ Len(decoderCalls) = 1
  /\ decoderCalls[1].fn = DecoderFn(Effective)
  /\ decoderCalls[1].input = SoftmaxOf(arg.x)
  /\ decoderCalls[1].fn # "best_path" => decoderCalls[1].top_paths = 1

\* C3 as stated: evaluate returns one entry per metric function, keyed by
\* the metric's __name__, whose value is that metric applied to
\* (y_true, y_pred); with metrics=None the only entry is character_error_rate.
C3_OneEntryPerMetric ==
  op = "evaluate" =>
    /\ PredictedOnce
    /\ DOMAIN ret = {MetricsUsed[i].name : i \in 1..Len(MetricsUsed)}
    /\ Cardinality(DOMAIN ret) = Cardinality({MetricsUsed[i] : i \in 1..Len(MetricsUsed)})
    /\ \A i \in 1..Len(MetricsUsed) : ret[MetricsUsed[i].name] = MetricValue(MetricsUsed[i])
    /\ arg.metrics.isNone => DOMAIN ret = {"character_error_rate"}

\* C3 amended: evaluate returns one entry per distinct metric __name__; its
\* value is the last metric of the list carrying that name, applied to
\* (y_true, y_pred); with metrics=None the only entry is character_error_rate.
C3_OneEntryPerName ==
  op = "evaluate" =>
    /\ PredictedOnce
    /\ DOMAIN ret = {MetricsUsed[i].name : i \in 1..Len(MetricsUsed)}
    /\ \A i \in 1..Len(MetricsUsed) :
         (\A j \in (i + 1)..Len(MetricsUsed) : MetricsUsed[j].name # MetricsUsed[i].name)
           => ret[MetricsUsed[i].name] = MetricValue(MetricsUsed[i])
    /\ arg.metrics.isNone => DOMAIN ret = {"character_error_rate"}

\* two different metric functions with the same __name__ were evaluated
C3_Witness ==
  /\ op = "evaluate"
  /\ ~arg.metrics.isNone
  /\ Len(arg.metrics.fns) = 2
  /\ arg.metrics.fns[1].id = "f1"
  /\ arg.metrics.fns[2].id = "f2"
  /\ Len(arg.x.samples) = 2
  /\ ret["<lambda>"].metric = "f2"

\* C4: every successful load_weights call compiles after model.load_weights
\* and before returning, so between calls the most recent compile is never
\* older than the most recent weight load.
C4_CompiledAfterLoad ==
  /\ \A i \in 1..Len(hist) :
       hist[i] = "load" => \E j \in (i + 1)..Len(hist) : hist[j] = "compile"
  /\ (op = "load_weights" /\ ~raised) =>
       calls = <<"model.load_weights", "model.compile">>

\* a load_weights call on an object whose constructor had preloaded weights
C4_Witness ==
  /\ op = "load_weights"
  /\ ~raised
  /\ Count(hist, "load") = 2
  /\ hist[Len(hist)] = "compile"

\* the file name save_weights / load_weights works with
FileNameUsed ==
  IF op = "save_weights" /\ arg.file_name = <<>>
    THEN get_time(arg.now) \o <<".h5">>
    ELSE arg.file_name

\* C5: save_weights / load_weights with full_path=False use the path
\* self.ckptdir followed by file_name, which starts with
\* ON.PATH.CKPT_DIR + class name + "/"; with full_path=True they use
\* file_name unchanged.
C5_RootedInCkptDir ==
  op \in {"save_weights", "load_weights"} =>
    IF arg.full_path
      THEN ioPath = FileNameUsed
      ELSE /\ ioPath = self.ckptdir \o FileNameUsed
           /\ IsPrefix(<<CKPT_DIR, self.class_name, "/">>, ioPath)

\* C6: construction calls get_model_conf first, then compile; with
\* preload=True a completed construction then loaded
\* PRETRAINED[class_name] as a full path and compiled a second time; with
\* preload=False nothing is loaded and compile runs exactly once.
C6_ConstructionOrder ==
  op = "__init__" =>
    /\ IsPrefix(<<"get_model_conf", "model.compile">>, calls)
    /\ IsPrefix(calls, <<"get_model_conf", "model.compile",
                         "model.load_weights", "model.compile">>)
    /\ (arg.preload /\ pc = "ready") =>
         /\ calls = <<"get_model_conf", "model.compile",
                      "model.load_weights", "model.compile">>
         /\ ioPath = PRETRAINED[self.class_name]
    /\ ~arg.preload =>
         /\ pc = "ready"
         /\ Count(calls, "model.load_weights") = 0
         /\ Count(calls, "model.compile") = 1

\* a construction with preload=True that completed
C6_Witness ==
  /\ op = "__init__"
  /\ arg.preload
  /\ pc = "ready"
  /\ Len(calls) = 4

\* the per-run directory of the last train call
RunDir == self.ckptdir \o get_time(arg.now) \o <<"/">>

C7_FitCall ==
  op = "train" =>
    /\ Count(calls, "model.fit_generator") = 1
    /\ Len(fit) = 1
    /\ RunDir \in fit[1].dirs
    /\ fit[1].epochs = arg.epochs
    /\ fit[1].generator = arg.train_seq
    /\ fit[1].validation_data = arg.test_seq
    /\ fit[1].callbacks =
         <<[kind |-> "ModelCheckpoint", path |-> RunDir \o <<"weights.h5">>,
            save_weights_only |-> TRUE, save_best_only |-> TRUE, patience |-> 0],
           [kind |-> "EarlyStopping", path |-> <<>>,
            save_weights_only |-> FALSE, save_best_only |-> FALSE,
            patience |-> arg.earlystop]>>

C7_TrainStep ==
  op' = "train" =>
    /\ files' \ files \subseteq {RunDir' \o <<"weights.h5">>}
    /\ dirs' = dirs \cup {RunDir'}
    /\ (Count(calls', "os.makedirs") = 1) = (RunDir' \notin dirs)
    /\ Count(calls', "os.makedirs") <= 1

\* C7: train writes checkpoints only under the per-run directory
\* self.ckptdir + <timestamp> + "/", which exists before fit_generator
\* starts and is created if it did not exist; the checkpoint callback
\* targets weights.h5 inside it with save_weights_only and save_best_only;
\* fit_generator is called once, with the callbacks
\* [checkpoint, early stopping with patience = earlystop] and epochs = epochs.
C7_TrainCheckpoints == [](C7_FitCall) /\ [][C7_TrainStep]_vars

\* a second run within the same second as an earlier one: the directory
\* already existed, and a checkpoint was written into it
C7_Witness ==
  /\ op = "train"
  /\ Count(calls, "os.makedirs") = 0
  /\ arg.epochs = DefaultEpochs
  /\ (RunDir \o <<"weights.h5">>) \in files

====
